---- MODULE Spec2Model ----
(***************************************************************************)
(* Model of the two upload-and-analyse components of                       *)
(* src/components/image-upload-analyzer.tsx: ImageUploadAnalyzer           *)
(* (lines 20-435) and Grove (lines 452-1415).                              *)
(*                                                                         *)
(* A nullable React state value is a tuple: Null is <<>>, a value v is     *)
(* <<v>>.  A File is a record of what the code reads of it: its name, its   *)
(* MIME type, its size in bytes, and what the browser decodes from it      *)
(* (decodes: whether img.onload fires rather than img.onerror; width and   *)
(* height of the decoded image).                                           *)
(***************************************************************************)
EXTENDS Integers, Sequences, FiniteSets, Bags, TLC

VARIABLES
    mounted,    \* the component(s) the page renders
    analyzer,   \* React state of ImageUploadAnalyzer
    grove,      \* React state of Grove
    jobs,       \* the bag of asynchronous flows that have not finished
    env,        \* the scripted environment of a side-by-side run
    probe       \* input and output of one application of a pure step

vars == <<mounted, analyzer, grove, jobs, env, probe>>

Null == <<>>
Some(v) == <<v>>

(***************************************************************************)
(* Strings                                                                 *)
(***************************************************************************)
StartsWith(s, prefix) ==
    /\ Len(s) >= Len(prefix)
    /\ SubSeq(s, 1, Len(prefix)) = prefix

(***************************************************************************)
(* Validation: validateFile (lines 90-105), validateImage (lines 491-506). *)
(* The result is the returned boolean and the setError call made, if any.  *)
(***************************************************************************)
validTypes == {"image/jpeg", "image/jpg", "image/png", "image/webp"}

maxSize == 10 * 1024 * 1024

InvalidTypeMessage == "Please upload a valid image file (JPEG, PNG, or WebP)"

TooLargeMessage == "Image file is too large. Please upload an image smaller than 10MB"

validateFile_DropsJpg(file) ==
    IF file.type \notin (validTypes \ {"image/jpg"})
    THEN [ok |-> FALSE, setError |-> Some(InvalidTypeMessage)]
    ELSE IF file.size >= maxSize
    THEN [ok |-> FALSE, setError |-> Some(TooLargeMessage)]
    ELSE [ok |-> TRUE, setError |-> Null]

validateFile(file) ==
    IF file.type \notin validTypes
    THEN [ok |-> FALSE, setError |-> Some(InvalidTypeMessage)]
    ELSE IF file.size > maxSize
    THEN [ok |-> FALSE, setError |-> Some(TooLargeMessage)]
    ELSE [ok |-> TRUE, setError |-> Null]

validateImage_AcceptsGif(file) ==
    IF file.type \notin (validTypes \cup {"image/gif"})
    THEN [ok |-> FALSE, setError |-> Some(InvalidTypeMessage)]
    ELSE IF file.size > maxSize
    THEN [ok |-> FALSE, setError |-> Some(TooLargeMessage)]
    ELSE [ok |-> TRUE, setError |-> Null]

validateImage(file) ==
    IF file.type \notin validTypes
    THEN [ok |-> FALSE, setError |-> Some(InvalidTypeMessage)]
    ELSE IF file.size > maxSize
    THEN [ok |-> FALSE, setError |-> Some(TooLargeMessage)]
    ELSE [ok |-> TRUE, setError |-> Null]

(***************************************************************************)
(* Resizing.  width and height of the decoded image are positive integers; *)
(* the scaled side is the rational num/den, kept as <<num, den>>, and      *)
(* assigning it to canvas.width / canvas.height (an unsigned long)         *)
(* truncates it.                                                           *)
(***************************************************************************)
ToUnsignedLong(q) == q[1] \div q[2]

resizeImage_WidthOnly(width, height, maxDimension) ==
    LET scaled ==
            IF width > maxDimension
            THEN [width |-> <<maxDimension, 1>>,
                  height |-> <<height * maxDimension, width>>]
            ELSE [width |-> <<width, 1>>, height |-> <<height, 1>>]
    IN  [width |-> ToUnsignedLong(scaled.width),
         height |-> ToUnsignedLong(scaled.height)]

resizeImage_RoundsUp(width, height, maxDimension) ==
    LET Ceil(q) == (q[1] + q[2] - 1) \div q[2]
        scaled ==
            IF width > height
            THEN IF width > maxDimension
                 THEN [width |-> <<maxDimension, 1>>,
                       height |-> <<height * maxDimension, width>>]
                 ELSE [width |-> <<width, 1>>, height |-> <<height, 1>>]
            ELSE IF height > maxDimension
                 THEN [width |-> <<width * maxDimension, height>>,
                       height |-> <<maxDimension, 1>>]
                 ELSE [width |-> <<width, 1>>, height |-> <<height, 1>>]
    IN  [width |-> Ceil(scaled.width), height |-> Ceil(scaled.height)]

resizeImage_AlwaysScales(width, height, maxDimension) ==
    LET scaled ==
            IF width > height
            THEN [width |-> <<maxDimension, 1>>,
                  height |-> <<height * maxDimension, width>>]
            ELSE [width |-> <<width * maxDimension, height>>,
                  height |-> <<maxDimension, 1>>]
    IN  [width |-> ToUnsignedLong(scaled.width),
         height |-> ToUnsignedLong(scaled.height)]

\* img.onload of resizeImage, lines 42-60
resizeImage(width, height, maxDimension) ==
    LET scaled ==
            IF width > height
            THEN IF width > maxDimension
                 THEN [width |-> <<maxDimension, 1>>,
                       height |-> <<height * maxDimension, width>>]
                 ELSE [width |-> <<width, 1>>, height |-> <<height, 1>>]
            ELSE IF height > maxDimension
                 THEN [width |-> <<width * maxDimension, height>>,
                       height |-> <<maxDimension, 1>>]
                 ELSE [width |-> <<width, 1>>, height |-> <<height, 1>>]
    IN  [width |-> ToUnsignedLong(scaled.width),
         height |-> ToUnsignedLong(scaled.height)]

maxWidth == 512

resizeAndCompressImage_LimitsHeight(width, height) ==
    LET scaled ==
            IF height > maxWidth
            THEN [width |-> <<width * maxWidth, height>>,
                  height |-> <<maxWidth, 1>>]
            ELSE [width |-> <<width, 1>>, height |-> <<height, 1>>]
    IN  [width |-> ToUnsignedLong(scaled.width),
         height |-> ToUnsignedLong(scaled.height)]

\* img.onload of resizeAndCompressImage, lines 519-531
resizeAndCompressImage(width, height) ==
    LET scaled ==
            IF width > maxWidth
            THEN [width |-> <<maxWidth, 1>>,
                  height |-> <<height * maxWidth, width>>]
            ELSE [width |-> <<width, 1>>, height |-> <<height, 1>>]
    IN  [width |-> ToUnsignedLong(scaled.width),
         height |-> ToUnsignedLong(scaled.height)]

\* canvas.toBlob(callback, "image/jpeg", quality) (lines 66-76, 537-547): the
\* callback gets null for a canvas without pixels, else the JPEG encoding of
\* the image drawn on the canvas.
toBlob(canvas, img) ==
    IF canvas.width = 0 \/ canvas.height = 0
    THEN Null
    ELSE Some([type |-> "image/jpeg", image |-> img,
               width |-> canvas.width, height |-> canvas.height])

createObjectURL(object) == [scheme |-> "blob:", of |-> object]

(***************************************************************************)
(* JavaScript values of the parsed response body.  A value is a record     *)
(* [t, s, n]: t is its typeof ("undefined", "null" for null, "string",     *)
(* "number", "boolean", "object" for an object or array), s its text when a  *)
(* string, n its value when a number (in thousandths: 873 is 0.873) or a   *)
(* boolean (1 is true).                                                    *)
(***************************************************************************)
Undefined == [t |-> "undefined", s |-> "", n |-> 0]
JsNull == [t |-> "null", s |-> "", n |-> 0]
Str(s) == [t |-> "string", s |-> s, n |-> 0]
Num(n) == [t |-> "number", s |-> "", n |-> n]
Bool(b) == [t |-> "boolean", s |-> "", n |-> IF b THEN 1 ELSE 0]
Obj == [t |-> "object", s |-> "", n |-> 0]

Truthy(v) ==
    CASE v.t = "string" -> v.s # ""
      [] v.t = "number" -> v.n # 0
      [] v.t = "boolean" -> v.n = 1
      [] v.t = "object" -> TRUE
      [] OTHER -> FALSE

\* The parsed body: json is "object", "null" (the JSON text null), "other"
\* (an array, a string, a number, a boolean: none has the properties read)
\* or "invalid" (response.json() rejects with a SyntaxError).
Body(json, disease, confidence, description) ==
    [json |-> json, disease |-> disease, confidence |-> confidence,
     description |-> description]

Property(data, name) ==
    IF data.json = "object"
    THEN CASE name = "disease" -> data.disease
           [] name = "confidence" -> data.confidence
           [] name = "description" -> data.description
    ELSE Undefined

\* A thrown value: class is "Error", "TypeError", "SyntaxError", or
\* "NonError" for a thrown value that is no Error.
Thrown(class, message) == [class |-> class, message |-> message]

InstanceOfError(err) == err.class \in {"Error", "TypeError", "SyntaxError"}

(***************************************************************************)
(* data.disease.replace(/_+/g, " ").trim()  (lines 138, 594)               *)
(***************************************************************************)
Whitespace == {" ", "\t", "\n"}

\* the replacement from the i-th character of s on
RECURSIVE ReplaceUnderscoreRunsFrom(_, _)
ReplaceUnderscoreRunsFrom(s, i) ==
    IF i > Len(s) THEN ""
    ELSE IF SubSeq(s, i, i) = "_"
         THEN IF i < Len(s) /\ SubSeq(s, i + 1, i + 1) = "_"
              THEN ReplaceUnderscoreRunsFrom(s, i + 1)
              ELSE " " \o ReplaceUnderscoreRunsFrom(s, i + 1)
         ELSE SubSeq(s, i, i) \o ReplaceUnderscoreRunsFrom(s, i + 1)

ReplaceUnderscoreRuns(s) == ReplaceUnderscoreRunsFrom(s, 1)

RECURSIVE TrimStart(_)
TrimStart(s) ==
    IF s # "" /\ SubSeq(s, 1, 1) \in Whitespace
    THEN TrimStart(SubSeq(s, 2, Len(s)))
    ELSE s

RECURSIVE TrimEnd(_)
TrimEnd(s) ==
    IF s # "" /\ SubSeq(s, Len(s), Len(s)) \in Whitespace
    THEN TrimEnd(SubSeq(s, 1, Len(s) - 1))
    ELSE s

Trim(s) == TrimEnd(TrimStart(s))

RECURSIVE ReplaceEachUnderscore(_)
ReplaceEachUnderscore(s) ==
    IF s = "" THEN ""
    ELSE (IF SubSeq(s, 1, 1) = "_" THEN " " ELSE SubSeq(s, 1, 1))
            \o ReplaceEachUnderscore(SubSeq(s, 2, Len(s)))

DisplayName_EachUnderscore(disease) == Trim(ReplaceEachUnderscore(disease))

DisplayName(disease) == Trim(ReplaceUnderscoreRuns(disease))

(***************************************************************************)
(* Messages                                                                *)
(***************************************************************************)
ServerErrorMessage == "Server error occurred. Please try again in a few moments."

InvalidFormatMessage == "Invalid response format from API"

ConnectMessage ==
    "Unable to connect to the analysis service. Please check your internet connection and try again."

GenericMessage == "Analysis failed. Please try again with a different image."

NoContextMessage == "Could not get canvas context"

LoadFailedMessage == "Failed to load image"

\* What the JavaScript engine throws on reading a property of null, on
\* calling replace on a value that has none, and on parsing malformed JSON.
NullPropertyError == Thrown("TypeError", "Cannot read properties of null (reading 'disease')")

NotAFunctionError == Thrown("TypeError", "data.disease.replace is not a function")

JsonSyntaxError == Thrown("SyntaxError", "Unexpected token < in JSON at position 0")

\* response.ok
Ok(status) == status >= 200 /\ status <= 299

(***************************************************************************)
(* ImageUploadAnalyzer: analyzeImage, lines 108-158                        *)
(***************************************************************************)
analyzeImage_start(ui) ==
    [ui EXCEPT !.isAnalyzing = TRUE, !.error = Null, !.result = Null]

analyzeImage_checkStatus_404IsInvalid(status) ==
    IF Ok(status) THEN Null
    ELSE IF status >= 400 /\ status < 500
    THEN Some(Thrown("Error", "Invalid request. Please check your image and try again."))
    ELSE IF status = 404
    THEN Some(Thrown("Error", "The analysis service is temporarily unavailable."))
    ELSE IF status = 500
    THEN Some(Thrown("Error", ServerErrorMessage))
    ELSE Some(Thrown("Error", "Request failed with status " \o ToString(status)))

\* lines 122-132: the Error thrown for the response's status, if any
analyzeImage_checkStatus(status) ==
    IF Ok(status) THEN Null
    ELSE IF status = 404
    THEN Some(Thrown("Error", "The analysis service is temporarily unavailable."))
    ELSE IF status = 500
    THEN Some(Thrown("Error", ServerErrorMessage))
    ELSE IF status >= 400 /\ status < 500
    THEN Some(Thrown("Error", "Invalid request. Please check your image and try again."))
    ELSE Some(Thrown("Error", "Request failed with status " \o ToString(status)))

analyzeImage_readBody_RequiresDescription(data) ==
    LET disease == Property(data, "disease")
        confidence == Property(data, "confidence")
        description == Property(data, "description")
    IN  IF data.json = "invalid" THEN [result |-> Null, throw |-> Some(JsonSyntaxError)]
        ELSE IF data.json = "null" THEN [result |-> Null, throw |-> Some(NullPropertyError)]
        ELSE IF Truthy(disease) /\ confidence.t = "number" /\ Truthy(description)
        THEN IF disease.t = "string"
             THEN [result |-> Some([disease |-> DisplayName(disease.s),
                                    confidence |-> confidence.n * 100,
                                    description |-> description]),
                   throw |-> Null]
             ELSE [result |-> Null, throw |-> Some(NotAFunctionError)]
        ELSE [result |-> Null, throw |-> Some(Thrown("Error", InvalidFormatMessage))]

\* lines 134-144: the result set, or the value thrown
analyzeImage_readBody(data) ==
    LET disease == Property(data, "disease")
        confidence == Property(data, "confidence")
        description == Property(data, "description")
    IN  IF data.json = "invalid" THEN [result |-> Null, throw |-> Some(JsonSyntaxError)]
        ELSE IF data.json = "null" THEN [result |-> Null, throw |-> Some(NullPropertyError)]
        ELSE IF Truthy(disease) /\ confidence.t = "number"
        THEN IF disease.t = "string"
             THEN [result |-> Some([disease |-> DisplayName(disease.s),
                                    confidence |-> confidence.n * 100,
                                    description |-> IF Truthy(description)
                                                    THEN description ELSE Str("")]),
                   throw |-> Null]
             ELSE [result |-> Null, throw |-> Some(NotAFunctionError)]
        ELSE [result |-> Null, throw |-> Some(Thrown("Error", InvalidFormatMessage))]

analyzeImage_catch_AlwaysGeneric(ui, err) ==
    IF err.class = "TypeError" /\ err.message = "Failed to fetch"
    THEN [ui EXCEPT !.error = Some(ConnectMessage)]
    ELSE [ui EXCEPT !.error = Some(GenericMessage)]

\* lines 145-154
analyzeImage_catch(ui, err) ==
    IF err.class = "TypeError" /\ err.message = "Failed to fetch"
    THEN [ui EXCEPT !.error = Some(ConnectMessage)]
    ELSE IF InstanceOfError(err)
    THEN [ui EXCEPT !.error = Some(err.message)]
    ELSE [ui EXCEPT !.error = Some(GenericMessage)]

\* lines 155-157
analyzeImage_finally(ui) == [ui EXCEPT !.isAnalyzing = FALSE]

\* The continuation after await fetch(...): outcome.rejected tells whether the
\* promise rejected (with outcome.error) or resolved (with outcome.status).
\* The job goes on to await response.json(), whose parsed value is
\* outcome.data, or ends.
analyzeImage_onFetch_Retries(ui, job, outcome) ==
    IF outcome.rejected
    THEN [ui |-> ui, job |-> [job EXCEPT !.posts = @ + 1]]
    ELSE LET thrown == analyzeImage_checkStatus(outcome.status)
         IN  IF thrown # Null
             THEN [ui |-> ui, job |-> [job EXCEPT !.posts = @ + 1]]
             ELSE [ui |-> ui, job |-> [job EXCEPT !.pc = "json", !.data = Some(outcome.data)]]

analyzeImage_onFetch(ui, job, outcome) ==
    IF outcome.rejected
    THEN [ui |-> analyzeImage_finally(analyzeImage_catch(ui, outcome.error)),
          job |-> [job EXCEPT !.pc = "done"]]
    ELSE LET thrown == analyzeImage_checkStatus(outcome.status)
         IN  IF thrown # Null
             THEN [ui |-> analyzeImage_finally(analyzeImage_catch(ui, thrown[1])),
                   job |-> [job EXCEPT !.pc = "done"]]
             ELSE [ui |-> ui, job |-> [job EXCEPT !.pc = "json", !.data = Some(outcome.data)]]

\* The continuation after await response.json()
analyzeImage_onJson(ui, data) ==
    LET read == analyzeImage_readBody(data)
    IN  IF read.throw # Null
        THEN analyzeImage_finally(analyzeImage_catch(ui, read.throw[1]))
        ELSE analyzeImage_finally([ui EXCEPT !.result = read.result])

(***************************************************************************)
(* ImageUploadAnalyzer: processFile, lines 161-191.  Each call that passes *)
(* validation is a job; via is "upload", or the sample's name for a job of *)
(* Grove's handleDemoImage; a job's pc is the await it is suspended at:    *)
(* "decode" (img.onload / img.onerror), "toBlob" (the canvas.toBlob        *)
(* callback), "fetch", "json", and "done".                                 *)
(***************************************************************************)
Job(component, via, file, pc) ==
    [component |-> component, via |-> via, file |-> file, pc |-> pc,
     canvas |-> Null, posts |-> 0, body |-> Null, data |-> Null]

\* lines 185-188
processFile_catch(ui, err) ==
    [ui EXCEPT !.error = Some(IF InstanceOfError(err) THEN err.message
                              ELSE "Failed to process image")]

processFile_start_SkipsValidation(ui, file, ctx) ==
    LET selected == [ui EXCEPT !.error = Null,
                               !.selectedFile = Some(file),
                               !.previewUrl = Some(createObjectURL(file))]
    IN  IF ~ctx
        THEN [ui |-> processFile_catch(selected, Thrown("Error", NoContextMessage)),
              pc |-> "done"]
        ELSE [ui |-> selected, pc |-> "decode"]

\* lines 163-177, up to the await of resizeImage; ctx is whether
\* canvas.getContext("2d") gave a context (lines 35-40).  pc is "none" when
\* the file is rejected and no job starts.
processFile_start(ui, file, ctx) ==
    LET valid == validateFile(file)
        cleared == [ui EXCEPT !.error = Null]
        selected == [cleared EXCEPT !.selectedFile = Some(file),
                                    !.previewUrl = Some(createObjectURL(file))]
    IN  IF ~valid.ok
        THEN [ui |-> [cleared EXCEPT !.error = valid.setError], pc |-> "none"]
        ELSE IF ~ctx
        THEN [ui |-> processFile_catch(selected, Thrown("Error", NoContextMessage)),
              pc |-> "done"]
        ELSE [ui |-> selected, pc |-> "decode"]

\* img.onload (lines 42-77) and img.onerror (lines 79-81)
processFile_onImage(ui, job) ==
    LET file == job.file[1]
    IN  IF file.decodes
        THEN [ui |-> ui,
              job |-> [job EXCEPT !.pc = "toBlob",
                                  !.canvas = Some(resizeImage(file.width, file.height, 512))]]
        ELSE [ui |-> processFile_catch(ui, Thrown("Error", LoadFailedMessage)),
              job |-> [job EXCEPT !.pc = "done"]]

\* the toBlob callback (lines 67-73) and, when the promise resolves, lines
\* 179-184 and analyzeImage up to its await of fetch (lines 109-120)
processFile_onBlob(ui, job) ==
    LET blob == toBlob(job.canvas[1], job.file[1])
    IN  IF blob = Null
        THEN [ui |-> processFile_catch(ui, Thrown("Error", "Failed to create blob from canvas")),
              job |-> [job EXCEPT !.pc = "done"]]
        ELSE [ui |-> analyzeImage_start(
                        [ui EXCEPT !.resizedImageUrl = Some(createObjectURL(blob[1]))]),
              job |-> [job EXCEPT !.pc = "fetch", !.posts = @ + 1, !.body = blob]]

\* handleDragEnter, lines 205-211: types is e.dataTransfer.types, Null when
\* the event has none
handleDragEnter(ui, types) ==
    IF types # Null /\ "Files" \in types[1]
    THEN [ui EXCEPT !.isDragActive = TRUE]
    ELSE ui

handleDragLeave_AlwaysClears(ui, rect, x, y) == [ui EXCEPT !.isDragActive = FALSE]

\* handleDragLeave, lines 213-222: rect is the bounding rectangle of the drop
\* area, (x, y) the pointer of the event
handleDragLeave(ui, rect, x, y) ==
    IF x < rect.left \/ x >= rect.right \/ y < rect.top \/ y >= rect.bottom
    THEN [ui EXCEPT !.isDragActive = FALSE]
    ELSE ui

\* handleDragOver, lines 224-228: sets the drop effect, no state
handleDragOver(ui) == ui

reset_LeavesResult(ui) ==
    [ui EXCEPT !.selectedFile = Null, !.previewUrl = Null, !.resizedImageUrl = Null,
               !.error = Null, !.isAnalyzing = FALSE]

\* lines 248-258 (the file input is not mounted while a file is selected, so
\* fileInputRef.current is null there)
reset(ui) ==
    [ui EXCEPT !.selectedFile = Null, !.previewUrl = Null, !.resizedImageUrl = Null,
               !.result = Null, !.error = Null, !.isAnalyzing = FALSE]

(***************************************************************************)
(* Grove: analyzeImageWithAPI, lines 560-616                               *)
(***************************************************************************)
analyzeImageWithAPI_checkStatus_No404(status) ==
    IF Ok(status) THEN Null
    ELSE IF status = 500
    THEN Some(Thrown("Error", ServerErrorMessage))
    ELSE IF status >= 400 /\ status < 500
    THEN Some(Thrown("Error", "Invalid request. Please check your image format and try again."))
    ELSE Some(Thrown("Error", "API request failed with status " \o ToString(status)))

\* lines 578-588
analyzeImageWithAPI_checkStatus(status) ==
    IF Ok(status) THEN Null
    ELSE IF status = 404
    THEN Some(Thrown("Error", "The service may be temporarily unavailable."))
    ELSE IF status = 500
    THEN Some(Thrown("Error", ServerErrorMessage))
    ELSE IF status >= 400 /\ status < 500
    THEN Some(Thrown("Error", "Invalid request. Please check your image format and try again."))
    ELSE Some(Thrown("Error", "API request failed with status " \o ToString(status)))

analyzeImageWithAPI_readBody_IgnoresDescription(data) ==
    LET disease == Property(data, "disease")
        confidence == Property(data, "confidence")
        description == Property(data, "description")
    IN  IF data.json = "invalid" THEN [result |-> Null, throw |-> Some(JsonSyntaxError)]
        ELSE IF data.json = "null" THEN [result |-> Null, throw |-> Some(NullPropertyError)]
        ELSE IF Truthy(disease) /\ confidence.t = "number"
        THEN IF disease.t = "string"
             THEN [result |-> Some([disease |-> DisplayName(disease.s),
                                    confidence |-> confidence.n * 100,
                                    description |-> description]),
                   throw |-> Null]
             ELSE [result |-> Null, throw |-> Some(NotAFunctionError)]
        ELSE [result |-> Null, throw |-> Some(Thrown("Error", InvalidFormatMessage))]

\* lines 590-600
analyzeImageWithAPI_readBody(data) ==
    LET disease == Property(data, "disease")
        confidence == Property(data, "confidence")
        description == Property(data, "description")
    IN  IF data.json = "invalid" THEN [result |-> Null, throw |-> Some(JsonSyntaxError)]
        ELSE IF data.json = "null" THEN [result |-> Null, throw |-> Some(NullPropertyError)]
        ELSE IF Truthy(disease) /\ confidence.t = "number" /\ Truthy(description)
        THEN IF disease.t = "string"
             THEN [result |-> Some([disease |-> DisplayName(disease.s),
                                    confidence |-> confidence.n * 100,
                                    description |-> description]),
                   throw |-> Null]
             ELSE [result |-> Null, throw |-> Some(NotAFunctionError)]
        ELSE [result |-> Null, throw |-> Some(Thrown("Error", InvalidFormatMessage))]

\* the catch block without its setCurrentView("home")
analyzeImageWithAPI_catch_StaysOnAnalysis(ui, err) ==
    LET shown ==
            IF err.class = "TypeError" /\ err.message = "Failed to fetch"
            THEN ConnectMessage
            ELSE IF InstanceOfError(err) THEN err.message
            ELSE GenericMessage
    IN  [ui EXCEPT !.error = Some(shown)]

\* lines 601-612
analyzeImageWithAPI_catch(ui, err) ==
    LET shown ==
            IF err.class = "TypeError" /\ err.message = "Failed to fetch"
            THEN ConnectMessage
            ELSE IF InstanceOfError(err) THEN err.message
            ELSE GenericMessage
    IN  [ui EXCEPT !.error = Some(shown), !.currentView = "home"]

\* lines 613-615
analyzeImageWithAPI_finally(ui) == [ui EXCEPT !.isAnalyzing = FALSE]

analyzeImageWithAPI_fail_SkipsFinally(ui, err) == analyzeImageWithAPI_catch(ui, err)

analyzeImageWithAPI_fail(ui, err) ==
    analyzeImageWithAPI_finally(analyzeImageWithAPI_catch(ui, err))

\* lines 561-568, up to the await of resizeAndCompressImage; ctx as in
\* processFile_start (lines 512-517)
analyzeImageWithAPI_start(ui, ctx) ==
    LET begun == [ui EXCEPT !.isAnalyzing = TRUE, !.result = Null, !.error = Null,
                            !.currentView = "analysis"]
    IN  IF ~ctx
        THEN [ui |-> analyzeImageWithAPI_fail(begun, Thrown("Error", NoContextMessage)),
              pc |-> "done"]
        ELSE [ui |-> begun, pc |-> "decode"]

\* img.onload (lines 519-548) and img.onerror (lines 550-552)
analyzeImageWithAPI_onImage(ui, job) ==
    LET file == job.file[1]
    IN  IF file.decodes
        THEN [ui |-> ui,
              job |-> [job EXCEPT !.pc = "toBlob",
                                  !.canvas = Some(resizeAndCompressImage(file.width, file.height))]]
        ELSE [ui |-> analyzeImageWithAPI_fail(ui, Thrown("Error", LoadFailedMessage)),
              job |-> [job EXCEPT !.pc = "done"]]

\* the toBlob callback (lines 538-544) and lines 570-576
analyzeImageWithAPI_onBlob(ui, job) ==
    LET blob == toBlob(job.canvas[1], job.file[1])
    IN  IF blob = Null
        THEN [ui |-> analyzeImageWithAPI_fail(ui, Thrown("Error", "Failed to create compressed image")),
              job |-> [job EXCEPT !.pc = "done"]]
        ELSE [ui |-> ui,
              job |-> [job EXCEPT !.pc = "fetch", !.posts = @ + 1, !.body = blob]]

\* the continuation after await fetch(...), as analyzeImage_onFetch
analyzeImageWithAPI_onFetch(ui, job, outcome) ==
    IF outcome.rejected
    THEN [ui |-> analyzeImageWithAPI_fail(ui, outcome.error),
          job |-> [job EXCEPT !.pc = "done"]]
    ELSE LET thrown == analyzeImageWithAPI_checkStatus(outcome.status)
         IN  IF thrown # Null
             THEN [ui |-> analyzeImageWithAPI_fail(ui, thrown[1]),
                   job |-> [job EXCEPT !.pc = "done"]]
             ELSE [ui |-> ui, job |-> [job EXCEPT !.pc = "json", !.data = Some(outcome.data)]]

\* the continuation after await response.json()
analyzeImageWithAPI_onJson(ui, data) ==
    LET read == analyzeImageWithAPI_readBody(data)
    IN  IF read.throw # Null
        THEN analyzeImageWithAPI_fail(ui, read.throw[1])
        ELSE analyzeImageWithAPI_finally([ui EXCEPT !.result = read.result])

(***************************************************************************)
(* Grove: the handlers, lines 618-674                                      *)
(***************************************************************************)
\* readAsDataURL's result: the file's type and content (which the file's name
\* stands for) as a data: URL
dataURL(file) == "data:" \o file.type \o ";base64," \o file.name

handleDragDrop_ClearsImageOnReject(ui, file) ==
    LET valid == validateImage(file)
        cleared == [ui EXCEPT !.error = Null]
    IN  IF ~valid.ok
        THEN [ui |-> [cleared EXCEPT !.error = valid.setError, !.uploadedImage = Null,
                                     !.result = Null],
              pc |-> "none"]
        ELSE [ui |-> cleared, pc |-> "read"]

\* handleImageUpload (lines 618-634) and handleDragDrop (lines 636-649) up to
\* reader.readAsDataURL; pc is "none" when the file is rejected
handleDragDrop(ui, file) ==
    LET valid == validateImage(file)
        cleared == [ui EXCEPT !.error = Null]
    IN  IF ~valid.ok
        THEN [ui |-> [cleared EXCEPT !.error = valid.setError], pc |-> "none"]
        ELSE [ui |-> cleared, pc |-> "read"]

handleImageUpload(ui, file) == handleDragDrop(ui, file)

\* reader.onload, lines 628-631 and 644-647
reader_onload(ui, file, ctx) ==
    analyzeImageWithAPI_start([ui EXCEPT !.uploadedImage = Some(dataURL(file))], ctx)

\* lines 652-658, up to the await of fetch(imageSrc)
handleDemoImage(ui, imageSrc) ==
    [ui EXCEPT !.error = Null,
               !.uploadedImage = Some(imageSrc),
               !.isDemoMode = TRUE]

\* lines 663-665
handleDemoImage_catch(ui) ==
    [ui EXCEPT !.error = Some("Demo analysis failed. Please try uploading your own image.")]

\* lines 668-674
resetAnalysis(ui) ==
    [ui EXCEPT !.uploadedImage = Null, !.result = Null, !.isDemoMode = FALSE,
               !.currentView = "home", !.error = Null]

(***************************************************************************)
(* State after construction: the useState initial values, lines 21-27 and  *)
(* 453-460.                                                                *)
(***************************************************************************)
analyzerInit ==
    [selectedFile |-> Null, previewUrl |-> Null, resizedImageUrl |-> Null,
     isAnalyzing |-> FALSE, result |-> Null, error |-> Null, isDragActive |-> FALSE]

groveInit ==
    [uploadedImage |-> Null, isAnalyzing |-> FALSE, result |-> Null,
     isDemoMode |-> FALSE, expandedFaq |-> Null, mobileMenuOpen |-> FALSE,
     currentView |-> "home", error |-> Null]

\* lines 462-466
demoImages ==
    {[src |-> "/images/healthy-tomato-leaf.jpg", name |-> "Garden Leaf Sample"],
     [src |-> "/images/potato-early-blight.jpg", name |-> "Crop Leaf Sample"],
     [src |-> "/images/apple-scab.jpg", name |-> "Fruit Tree Leaf Sample"]}

(***************************************************************************)
(* The environment the model is checked in: the files the user offers and  *)
(* what the network answers.                                               *)
(***************************************************************************)
File(name, type, size, decodes, width, height) ==
    [name |-> name, type |-> type, size |-> size, decodes |-> decodes,
     width |-> width, height |-> height]

Landscape == File("leaf.jpg", "image/jpeg", 2000000, TRUE, 1024, 768)
Sliver == File("stem.png", "image/png", 40000, TRUE, 1, 1000)
Corrupt == File("broken.webp", "image/webp", 5000, FALSE, 0, 0)
Animation == File("leaf.gif", "image/gif", 5000, TRUE, 100, 100)
Oversized == File("scan.jpg", "image/jpeg", maxSize + 1, TRUE, 4000, 3000)
Document == File("notes.pdf", "application/pdf", 5000, FALSE, 0, 0)

Files == {Landscape, Sliver, Corrupt, Animation, Oversized, Document}

\* The classifier's label for an image, by the name of the file it came from
Label(name) ==
    IF name = "stem.png" THEN "Potato___healthy" ELSE "Tomato___Early_blight"

FetchOutcome(rejected, message, status, data) ==
    [rejected |-> rejected, error |-> Thrown("TypeError", message),
     status |-> status, data |-> data]

NoBody == Body("invalid", Undefined, Undefined, Undefined)

\* What the /predict endpoint may answer a POST of blob
Answers(blob) ==
    {Body("object", Str(Label(blob.image.name)), Num(873), Str("Remove affected leaves.")),
     Body("object", Str(Label(blob.image.name)), Num(873), Undefined),
     Body("object", Undefined, Undefined, Undefined)}

Statuses == {404, 500}

Outcomes(blob) ==
    {FetchOutcome(TRUE, "Failed to fetch", 0, NoBody)}
        \cup {FetchOutcome(FALSE, "", status, NoBody) : status \in Statuses}
        \cup {FetchOutcome(FALSE, "", 200, data) : data \in Answers(blob)}

MaxJobs == 2

(***************************************************************************)
(* Actions of ImageUploadAnalyzer.  A handler is enabled when the element  *)
(* it is bound to is rendered.  A job leaves the bag when its flow ends.   *)
(***************************************************************************)
Suspended(job, component, pc) ==
    /\ BagIn(job, jobs)
    /\ job.component = component
    /\ job.pc = pc

Started(job) == IF job.pc = "done" THEN jobs ELSE jobs (+) SetToBag({job})

Resumed(job, next) ==
    IF next.pc = "done"
    THEN jobs (-) SetToBag({job})
    ELSE (jobs (-) SetToBag({job})) (+) SetToBag({next})

\* processFile(file), called on state ui, up to its first await
Analyzer_processFile(ui, file, ctx) ==
    LET started == processFile_start(ui, file, ctx)
    IN  /\ started.pc # "none" => BagCardinality(jobs) < MaxJobs
        /\ analyzer' = started.ui
        /\ jobs' = IF started.pc = "none" THEN jobs
                   ELSE Started(Job("ImageUploadAnalyzer", "upload", Some(file), started.pc))

\* handleFileChange, lines 194-202; the input is rendered at lines 268-287
Analyzer_handleFileChange(file, ctx) ==
    /\ "ImageUploadAnalyzer" \in mounted
    /\ analyzer.selectedFile = Null
    /\ Analyzer_processFile(analyzer, file, ctx)
    /\ UNCHANGED <<mounted, grove, env, probe>>

\* handleDrop, lines 230-245; dropped is Null when the drop carries no file
Analyzer_handleDrop(dropped, ctx) ==
    /\ "ImageUploadAnalyzer" \in mounted
    /\ analyzer.selectedFile = Null
    /\ LET ui == [analyzer EXCEPT !.isDragActive = FALSE]
       IN  IF dropped # Null /\ StartsWith(dropped[1].type, "image/")
           THEN Analyzer_processFile(ui, dropped[1], ctx)
           ELSE analyzer' = ui /\ UNCHANGED jobs
    /\ UNCHANGED <<mounted, grove, env, probe>>

\* The drop area's bounding rectangle, and the pointers and data transfer
\* types of the drag events the browser may deliver
DropArea == [left |-> 100, right |-> 300, top |-> 50, bottom |-> 150]

Pointers ==
    {[x |-> x, y |-> 100] : x \in {99, 100, 299, 300}}
        \cup {[x |-> 200, y |-> y] : y \in {49, 50, 149, 150}}
        \cup {[x |-> 0, y |-> 0], [x |-> 300, y |-> 150]}

DragTypes == {Null, Some({}), Some({"text/plain"}), Some({"Files"}), Some({"text/plain", "Files"})}

\* onDragEnter, onDragLeave and onDragOver of the upload area, lines 274-276
Analyzer_handleDragEnter(types) ==
    /\ "ImageUploadAnalyzer" \in mounted
    /\ analyzer.selectedFile = Null
    /\ analyzer' = handleDragEnter(analyzer, types)
    /\ UNCHANGED <<mounted, grove, jobs, env, probe>>

Analyzer_handleDragLeave(pointer) ==
    /\ "ImageUploadAnalyzer" \in mounted
    /\ analyzer.selectedFile = Null
    /\ analyzer' = handleDragLeave(analyzer, DropArea, pointer.x, pointer.y)
    /\ UNCHANGED <<mounted, grove, jobs, env, probe>>

Analyzer_handleDragOver ==
    /\ "ImageUploadAnalyzer" \in mounted
    /\ analyzer.selectedFile = Null
    /\ analyzer' = handleDragOver(analyzer)
    /\ UNCHANGED <<mounted, grove, jobs, env, probe>>

\* reset, bound to "Upload Another Image", lines 421-425
Analyzer_reset ==
    /\ "ImageUploadAnalyzer" \in mounted
    /\ analyzer.selectedFile # Null
    /\ analyzer' = reset(analyzer)
    /\ UNCHANGED <<mounted, grove, jobs, env, probe>>

\* the dismiss button of the error card, lines 310-322
Analyzer_dismissError ==
    /\ "ImageUploadAnalyzer" \in mounted
    /\ analyzer.error # Null
    /\ analyzer' = [analyzer EXCEPT !.error = Null]
    /\ UNCHANGED <<mounted, grove, jobs, env, probe>>

Analyzer_imageSettled(job) ==
    /\ Suspended(job, "ImageUploadAnalyzer", "decode")
    /\ LET next == processFile_onImage(analyzer, job)
       IN  analyzer' = next.ui /\ jobs' = Resumed(job, next.job)
    /\ UNCHANGED <<mounted, grove, env, probe>>

Analyzer_blobCallback(job) ==
    /\ Suspended(job, "ImageUploadAnalyzer", "toBlob")
    /\ LET next == processFile_onBlob(analyzer, job)
       IN  analyzer' = next.ui /\ jobs' = Resumed(job, next.job)
    /\ UNCHANGED <<mounted, grove, env, probe>>

Analyzer_fetchSettled(job, outcome) ==
    /\ Suspended(job, "ImageUploadAnalyzer", "fetch")
    /\ LET next == analyzeImage_onFetch(analyzer, job, outcome)
       IN  analyzer' = next.ui /\ jobs' = Resumed(job, next.job)
    /\ UNCHANGED <<mounted, grove, env, probe>>

Analyzer_jsonSettled(job) ==
    /\ Suspended(job, "ImageUploadAnalyzer", "json")
    /\ analyzer' = analyzeImage_onJson(analyzer, job.data[1])
    /\ jobs' = Resumed(job, [job EXCEPT !.pc = "done"])
    /\ UNCHANGED <<mounted, grove, env, probe>>

(***************************************************************************)
(* Actions of Grove.  The upload section and the demo section are rendered *)
(* on the home view (lines 772-1415), the two reset buttons on the         *)
(* analysis view (lines 676-770).  A job of Grove is suspended at "read"   *)
(* (FileReader), "demoFetch" and "demoBlob" (handleDemoImage's two awaits) *)
(* before the pcs it shares with ImageUploadAnalyzer.                      *)
(***************************************************************************)
Grove_offer(file) ==
    LET started == handleDragDrop(grove, file)
    IN  /\ started.pc # "none" => BagCardinality(jobs) < MaxJobs
        /\ grove' = started.ui
        /\ jobs' = IF started.pc = "none" THEN jobs
                   ELSE Started(Job("Grove", "upload", Some(file), started.pc))

\* handleImageUpload, bound to the file input at lines 991-997
Grove_handleImageUpload(file) ==
    /\ "Grove" \in mounted
    /\ grove.currentView = "home"
    /\ Grove_offer(file)
    /\ UNCHANGED <<mounted, analyzer, env, probe>>

\* onDrop, lines 974-980; dropped is Null when the drop carries no file
Grove_onDrop(dropped) ==
    /\ "Grove" \in mounted
    /\ grove.currentView = "home"
    /\ IF dropped # Null /\ StartsWith(dropped[1].type, "image/")
       THEN Grove_offer(dropped[1])
       ELSE UNCHANGED <<grove, jobs>>
    /\ UNCHANGED <<mounted, analyzer, env, probe>>

\* reader.onload (ok), or the read failing: the reader has no onerror handler
Grove_readerSettled(job, ok, ctx) ==
    /\ Suspended(job, "Grove", "read")
    /\ IF ok
       THEN LET started == reader_onload(grove, job.file[1], ctx)
            IN  grove' = started.ui /\ jobs' = Resumed(job, [job EXCEPT !.pc = started.pc])
       ELSE grove' = grove /\ jobs' = Resumed(job, [job EXCEPT !.pc = "done"])
    /\ UNCHANGED <<mounted, analyzer, env, probe>>

\* handleDemoImage, bound to the sample buttons at lines 1017-1031
Grove_handleDemoImage(demo) ==
    /\ "Grove" \in mounted
    /\ grove.currentView = "home"
    /\ BagCardinality(jobs) < MaxJobs
    /\ grove' = handleDemoImage(grove, demo.src)
    /\ jobs' = Started(Job("Grove", demo.name, Null, "demoFetch"))
    /\ UNCHANGED <<mounted, analyzer, env, probe>>

\* await fetch(imageSrc), line 658: resolves with a response of any status,
\* or rejects
Grove_demoFetchSettled(job, resolved) ==
    /\ Suspended(job, "Grove", "demoFetch")
    /\ IF resolved
       THEN grove' = grove /\ jobs' = Resumed(job, [job EXCEPT !.pc = "demoBlob"])
       ELSE /\ grove' = handleDemoImage_catch(grove)
            /\ jobs' = Resumed(job, [job EXCEPT !.pc = "done"])
    /\ UNCHANGED <<mounted, analyzer, env, probe>>

\* await response.blob(), lines 659-662: content is the File made of the
\* blob read, or Null when the read rejects
Grove_demoBlobSettled(job, content, ctx) ==
    /\ Suspended(job, "Grove", "demoBlob")
    /\ IF content # Null
       THEN LET started == analyzeImageWithAPI_start(grove, ctx)
            IN  /\ grove' = started.ui
                /\ jobs' = Resumed(job, [job EXCEPT !.pc = started.pc, !.file = content])
       ELSE /\ grove' = handleDemoImage_catch(grove)
            /\ jobs' = Resumed(job, [job EXCEPT !.pc = "done"])
    /\ UNCHANGED <<mounted, analyzer, env, probe>>

Grove_imageSettled(job) ==
    /\ Suspended(job, "Grove", "decode")
    /\ LET next == analyzeImageWithAPI_onImage(grove, job)
       IN  grove' = next.ui /\ jobs' = Resumed(job, next.job)
    /\ UNCHANGED <<mounted, analyzer, env, probe>>

Grove_blobCallback(job) ==
    /\ Suspended(job, "Grove", "toBlob")
    /\ LET next == analyzeImageWithAPI_onBlob(grove, job)
       IN  grove' = next.ui /\ jobs' = Resumed(job, next.job)
    /\ UNCHANGED <<mounted, analyzer, env, probe>>

Grove_fetchSettled(job, outcome) ==
    /\ Suspended(job, "Grove", "fetch")
    /\ LET next == analyzeImageWithAPI_onFetch(grove, job, outcome)
       IN  grove' = next.ui /\ jobs' = Resumed(job, next.job)
    /\ UNCHANGED <<mounted, analyzer, env, probe>>

Grove_jsonSettled(job) ==
    /\ Suspended(job, "Grove", "json")
    /\ grove' = analyzeImageWithAPI_onJson(grove, job.data[1])
    /\ jobs' = Resumed(job, [job EXCEPT !.pc = "done"])
    /\ UNCHANGED <<mounted, analyzer, env, probe>>

\* resetAnalysis, bound to "Back to Home" (lines 686-693) and to "Analyze
\* Another Image" (lines 749-755)
Grove_resetAnalysis ==
    /\ "Grove" \in mounted
    /\ grove.currentView = "analysis"
    /\ grove' = resetAnalysis(grove)
    /\ UNCHANGED <<mounted, analyzer, jobs, env, probe>>

(***************************************************************************)
(* The page with one of the two components mounted                         *)
(***************************************************************************)
Drops == {Null} \cup {Some(file) : file \in Files}

\* What fetch(imageSrc) followed by response.blob() may deliver for a sample:
\* the sample image, or a body that is no image (an error page)
DemoContents(imageName) ==
    {Null,
     Some(File(imageName \o ".jpg", "image/jpeg", 300000, TRUE, 800, 600)),
     Some(File(imageName \o ".jpg", "image/jpeg", 1500, FALSE, 0, 0))}

\* The samples the user clicks
Samples == {demo \in demoImages : demo.name = "Crop Leaf Sample"}

idleEnv == [file |-> Landscape, outcome |-> FetchOutcome(TRUE, "", 0, NoBody), offered |-> {}]

(***************************************************************************)
(* Single steps on enumerated inputs.  A probe holds one input (a file, or *)
(* what fetch and response.json() deliver) and, once the step is applied,  *)
(* what both components make of it: the validator's answer, the canvas,    *)
(* and the component state the handler leaves.                             *)
(***************************************************************************)
MaxDim == 1026

Dims ==
    {d \in 1 .. MaxDim :
        d <= 8 \/ d % 37 = 0 \/ (d >= 505 /\ d <= 520) \/ d >= MaxDim - 2}

ProbeTypes ==
    validTypes \cup {"image/gif", "image/svg+xml", "image/", "application/pdf", "text/plain", ""}

ProbeSizes == {0, 1, maxSize - 1, maxSize, maxSize + 1, 2 * maxSize}

ProbeStatuses == 200 .. 599

ProbeBodies ==
    {Body("object", disease, confidence, description) :
        disease \in {Undefined, JsNull, Str(""), Str("Tomato___Early_blight"),
                     Str("__healthy_"), Str("Potato___healthy"), Str("___"),
                     Str(" Corn_(maize)___Common_rust_ "), Str("Apple scab"), Num(5), Obj},
        confidence \in {Undefined, JsNull, Num(873), Num(0), Str("0.9")},
        description \in {Undefined, Str(""), Str("Remove affected leaves."), Num(1)}}
        \cup {Body(json, Undefined, Undefined, Undefined) : json \in {"null", "other", "invalid"}}

ProbeOutcomes ==
    {FetchOutcome(TRUE, message, 0, NoBody) :
        message \in {"Failed to fetch", "Load failed",
                     "NetworkError when attempting to fetch resource."}}
        \cup {FetchOutcome(FALSE, "", status, NoBody) : status \in ProbeStatuses}
        \cup {FetchOutcome(FALSE, "", status, data) : status \in {200, 201, 299}, data \in ProbeBodies}

Probe(kind, phase, file, outcome) ==
    [kind |-> kind, phase |-> phase, file |-> file, outcome |-> outcome,
     validA |-> [ok |-> FALSE, setError |-> Null],
     validG |-> [ok |-> FALSE, setError |-> Null],
     canvasA |-> [width |-> 0, height |-> 0], canvasG |-> [width |-> 0, height |-> 0],
     uiA |-> analyzerInit, uiG |-> groveInit]

idleProbe == Probe("none", "output", Landscape, FetchOutcome(TRUE, "", 0, NoBody))

\* A result and an error a component may hold
SomeResult ==
    Some([disease |-> "Tomato Early blight", confidence |-> 87300,
          description |-> Str("Remove affected leaves.")])

SomeError == Some(ServerErrorMessage)

\* The states of ImageUploadAnalyzer a handler may be called in: the preview
\* URL is set with the selected file; every other field may hold either value,
\* an earlier flow's completion being free to set it after a reset
AnalyzerStates ==
    {[selectedFile |-> selected,
      previewUrl |-> IF selected = Null THEN Null ELSE Some(createObjectURL(selected[1])),
      resizedImageUrl |-> resized, isAnalyzing |-> analyzing, result |-> result,
      error |-> error, isDragActive |-> drag] :
        selected \in {Null, Some(Landscape)},
        resized \in {Null, Some(createObjectURL(toBlob([width |-> 512, height |-> 384],
                                                       Landscape)[1]))},
        analyzing \in BOOLEAN, result \in {Null, SomeResult},
        error \in {Null, SomeError}, drag \in BOOLEAN}

\* The states of Grove a handler may be called in; expandedFaq is the index
\* of the open question (line 1073)
GroveStates ==
    {[uploadedImage |-> uploaded, isAnalyzing |-> analyzing, result |-> result,
      isDemoMode |-> demo, expandedFaq |-> faq, mobileMenuOpen |-> menu,
      currentView |-> view, error |-> error] :
        uploaded \in {Null, Some(dataURL(Landscape))},
        analyzing \in BOOLEAN, result \in {Null, SomeResult}, demo \in BOOLEAN,
        faq \in {Null, Some(0), Some(3)}, menu \in BOOLEAN,
        view \in {"home", "analysis"}, error \in {Null, SomeError}}

\* A call of a handler of each component on a state of it
Call(kind, uiA, uiG) ==
    [Probe(kind, "input", Landscape, FetchOutcome(TRUE, "", 0, NoBody))
        EXCEPT !.uiA = uiA, !.uiG = uiG]

\* The values a catch block may be entered with
ProbeThrown ==
    {Thrown(class, message) :
        class \in {"Error", "TypeError", "SyntaxError", "NonError"},
        message \in {"Failed to fetch", "Load failed", LoadFailedMessage,
                     "Failed to create compressed image", InvalidFormatMessage, ""}}

ProbeInputs ==
    {Probe("validate", "input", File("probe", type, size, TRUE, 640, 480),
           FetchOutcome(TRUE, "", 0, NoBody)) : type \in ProbeTypes, size \in ProbeSizes}
        \cup {Probe("resize", "input", File("probe", "image/png", 1, TRUE, width, height),
                    FetchOutcome(TRUE, "", 0, NoBody)) : width \in Dims, height \in Dims}
        \cup {Probe("response", "input", Landscape, outcome) : outcome \in ProbeOutcomes}
        \cup {Probe("catch", "input", Landscape,
                    [FetchOutcome(TRUE, "", 0, NoBody) EXCEPT !.error = err]) :
                err \in ProbeThrown}
        \cup {Call("reset", uiA, groveInit) : uiA \in AnalyzerStates}
        \cup {Call("reset", analyzerInit, uiG) : uiG \in GroveStates}

\* validateFile within processFile, validateImage within handleDragDrop
Steps_validate ==
    /\ probe.kind = "validate" /\ probe.phase = "input"
    /\ probe' = [probe EXCEPT
                    !.phase = "output",
                    !.validA = validateFile(probe.file),
                    !.validG = validateImage(probe.file),
                    !.uiA = processFile_start(analyzerInit, probe.file, TRUE).ui,
                    !.uiG = handleDragDrop(groveInit, probe.file).ui]
    /\ UNCHANGED <<mounted, analyzer, grove, jobs, env>>

\* img.onload of both components
Steps_resize ==
    /\ probe.kind = "resize" /\ probe.phase = "input"
    /\ probe' = [probe EXCEPT
                    !.phase = "output",
                    !.canvasA = resizeImage(probe.file.width, probe.file.height, 512),
                    !.canvasG = resizeAndCompressImage(probe.file.width, probe.file.height)]
    /\ UNCHANGED <<mounted, analyzer, grove, jobs, env>>

\* analyzeImage and analyzeImageWithAPI from their await of fetch to their
\* end, on the state each is in when it awaits
AnalyzerAwaitingFetch == analyzeImage_start(analyzerInit)

GroveAwaitingFetch == analyzeImageWithAPI_start(groveInit, TRUE).ui

ProbeJob == [Job("probe", "upload", Some(Landscape), "fetch") EXCEPT !.posts = 1]

Steps_response ==
    /\ probe.kind = "response" /\ probe.phase = "input"
    /\ LET a == analyzeImage_onFetch(AnalyzerAwaitingFetch, ProbeJob, probe.outcome)
           g == analyzeImageWithAPI_onFetch(GroveAwaitingFetch, ProbeJob, probe.outcome)
       IN  probe' = [probe EXCEPT
                        !.phase = "output",
                        !.uiA = IF a.job.pc = "json"
                                THEN analyzeImage_onJson(a.ui, a.job.data[1])
                                ELSE a.ui,
                        !.uiG = IF g.job.pc = "json"
                                THEN analyzeImageWithAPI_onJson(g.ui, g.job.data[1])
                                ELSE g.ui]
    /\ UNCHANGED <<mounted, analyzer, grove, jobs, env>>

\* reset of ImageUploadAnalyzer and resetAnalysis of Grove
Steps_reset ==
    /\ probe.kind = "reset" /\ probe.phase = "input"
    /\ probe' = [probe EXCEPT
                    !.phase = "output",
                    !.uiA = reset(probe.uiA),
                    !.uiG = resetAnalysis(probe.uiG)]
    /\ UNCHANGED <<mounted, analyzer, grove, jobs, env>>

\* the catch and finally blocks of analyzeImage and analyzeImageWithAPI,
\* entered with the value probe.outcome.error
Steps_catch ==
    /\ probe.kind = "catch" /\ probe.phase = "input"
    /\ probe' = [probe EXCEPT
                    !.phase = "output",
                    !.uiA = analyzeImage_finally(
                                analyzeImage_catch(AnalyzerAwaitingFetch, probe.outcome.error)),
                    !.uiG = analyzeImageWithAPI_fail(GroveAwaitingFetch, probe.outcome.error)]
    /\ UNCHANGED <<mounted, analyzer, grove, jobs, env>>

StepsInit ==
    /\ mounted = {}
    /\ analyzer = analyzerInit
    /\ grove = groveInit
    /\ jobs = EmptyBag
    /\ env = idleEnv
    /\ probe \in ProbeInputs

StepsNext ==
    Steps_validate \/ Steps_resize \/ Steps_response \/ Steps_reset \/ Steps_catch

Steps == StepsInit /\ [][StepsNext]_vars

Init ==
    /\ mounted \in {{"ImageUploadAnalyzer"}, {"Grove"}}
    /\ analyzer = analyzerInit
    /\ grove = groveInit
    /\ jobs = EmptyBag
    /\ env = idleEnv
    /\ probe = idleProbe

Next ==
    \/ \E file \in Files, ctx \in BOOLEAN : Analyzer_handleFileChange(file, ctx)
    \/ \E dropped \in Drops, ctx \in BOOLEAN : Analyzer_handleDrop(dropped, ctx)
    \/ \E types \in DragTypes : Analyzer_handleDragEnter(types)
    \/ \E pointer \in Pointers : Analyzer_handleDragLeave(pointer)
    \/ Analyzer_handleDragOver
    \/ Analyzer_reset
    \/ Analyzer_dismissError
    \/ \E job \in BagToSet(jobs) : Analyzer_imageSettled(job)
    \/ \E job \in BagToSet(jobs) : Analyzer_blobCallback(job)
    \/ \E job \in BagToSet(jobs) :
            /\ job.pc = "fetch"
            /\ \E outcome \in Outcomes(job.body[1]) : Analyzer_fetchSettled(job, outcome)
    \/ \E job \in BagToSet(jobs) : Analyzer_jsonSettled(job)
    \/ \E file \in Files : Grove_handleImageUpload(file)
    \/ \E dropped \in Drops : Grove_onDrop(dropped)
    \/ \E job \in BagToSet(jobs), ok \in BOOLEAN, ctx \in BOOLEAN :
            Grove_readerSettled(job, ok, ctx)
    \/ \E demo \in Samples : Grove_handleDemoImage(demo)
    \/ \E job \in BagToSet(jobs), resolved \in BOOLEAN : Grove_demoFetchSettled(job, resolved)
    \/ \E job \in BagToSet(jobs) :
            /\ job.pc = "demoBlob"
            /\ \E content \in DemoContents(job.via), ctx \in BOOLEAN :
                    Grove_demoBlobSettled(job, content, ctx)
    \/ \E job \in BagToSet(jobs) : Grove_imageSettled(job)
    \/ \E job \in BagToSet(jobs) : Grove_blobCallback(job)
    \/ \E job \in BagToSet(jobs) :
            /\ job.pc = "fetch"
            /\ \E outcome \in Outcomes(job.body[1]) : Grove_fetchSettled(job, outcome)
    \/ \E job \in BagToSet(jobs) : Grove_jsonSettled(job)
    \/ Grove_resetAnalysis

Spec == Init /\ [][Next]_vars

(***************************************************************************)
(* Both components mounted side by side, each offered the same file once   *)
(* through its file input, on a network that gives both the same answer.   *)
(* The file, and what fetch and response.json() deliver, are in env.       *)
(***************************************************************************)
Ribbon == File("blade.jpg", "image/jpeg", 40000, TRUE, 1000, 1)
Reed == File("reed.png", "image/png", 40000, TRUE, 2, 1024)
Stalk == File("stalk.png", "image/png", 40000, TRUE, 2, 1025)

SideFiles == Files \cup {Ribbon, Reed, Stalk}

\* handleFileChange of ImageUploadAnalyzer on env.file
SideBySide_offerAnalyzer ==
    /\ "ImageUploadAnalyzer" \notin env.offered
    /\ analyzer.selectedFile = Null
    /\ Analyzer_processFile(analyzer, env.file, TRUE)
    /\ env' = [env EXCEPT !.offered = @ \cup {"ImageUploadAnalyzer"}]
    /\ UNCHANGED <<mounted, grove, probe>>

\* handleImageUpload of Grove on env.file
SideBySide_offerGrove ==
    /\ "Grove" \notin env.offered
    /\ grove.currentView = "home"
    /\ Grove_offer(env.file)
    /\ env' = [env EXCEPT !.offered = @ \cup {"Grove"}]
    /\ UNCHANGED <<mounted, analyzer, probe>>

SideBySideInit ==
    /\ mounted = {"ImageUploadAnalyzer", "Grove"}
    /\ analyzer = analyzerInit
    /\ grove = groveInit
    /\ jobs = EmptyBag
    /\ env \in {[file |-> file, outcome |-> outcome, offered |-> {}] :
                    file \in SideFiles, outcome \in Outcomes([image |-> Landscape])}
    /\ probe = idleProbe

SideBySideNext ==
    \/ SideBySide_offerAnalyzer
    \/ SideBySide_offerGrove
    \/ \E job \in BagToSet(jobs) : Analyzer_imageSettled(job)
    \/ \E job \in BagToSet(jobs) : Analyzer_blobCallback(job)
    \/ \E job \in BagToSet(jobs) : Analyzer_fetchSettled(job, env.outcome)
    \/ \E job \in BagToSet(jobs) : Analyzer_jsonSettled(job)
    \/ \E job \in BagToSet(jobs) : Grove_readerSettled(job, TRUE, TRUE)
    \/ \E job \in BagToSet(jobs) : Grove_imageSettled(job)
    \/ \E job \in BagToSet(jobs) : Grove_blobCallback(job)
    \/ \E job \in BagToSet(jobs) : Grove_fetchSettled(job, env.outcome)
    \/ \E job \in BagToSet(jobs) : Grove_jsonSettled(job)

SideBySide == SideBySideInit /\ [][SideBySideNext]_vars

(***************************************************************************)
(* One file and no further action of the user: a component is offered one  *)
(* file through its file input, and then only the pending read, decode,    *)
(* toBlob callback, fetch and body read settle, each with any outcome.     *)
(* env records the file offered. The browser delivers the load / error     *)
(* event of every read and decode, calls the toBlob callback, and settles  *)
(* the promises of fetch and json(): a pending step is taken eventually,   *)
(* which is the weak fairness of Unattended_settle.                        *)
(***************************************************************************)
\* handleFileChange of ImageUploadAnalyzer (lines 194-202) on the one file
Unattended_offerAnalyzer(file, ctx) ==
    /\ "ImageUploadAnalyzer" \in mounted
    /\ env.offered = {}
    /\ analyzer.selectedFile = Null
    /\ Analyzer_processFile(analyzer, file, ctx)
    /\ env' = [env EXCEPT !.file = file, !.offered = {"ImageUploadAnalyzer"}]
    /\ UNCHANGED <<mounted, grove, probe>>

\* handleImageUpload of Grove (lines 618-634) on the one file
Unattended_offerGrove(file) ==
    /\ "Grove" \in mounted
    /\ env.offered = {}
    /\ grove.currentView = "home"
    /\ Grove_offer(file)
    /\ env' = [env EXCEPT !.file = file, !.offered = {"Grove"}]
    /\ UNCHANGED <<mounted, analyzer, probe>>

\* A pending step of the one flow settles
Unattended_settle ==
    \/ \E job \in BagToSet(jobs) : Analyzer_imageSettled(job)
    \/ \E job \in BagToSet(jobs) : Analyzer_blobCallback(job)
    \/ \E job \in BagToSet(jobs) :
            /\ job.pc = "fetch"
            /\ \E outcome \in Outcomes(job.body[1]) : Analyzer_fetchSettled(job, outcome)
    \/ \E job \in BagToSet(jobs) : Analyzer_jsonSettled(job)
    \/ \E job \in BagToSet(jobs), ok \in BOOLEAN, ctx \in BOOLEAN :
            Grove_readerSettled(job, ok, ctx)
    \/ \E job \in BagToSet(jobs) : Grove_imageSettled(job)
    \/ \E job \in BagToSet(jobs) : Grove_blobCallback(job)
    \/ \E job \in BagToSet(jobs) :
            /\ job.pc = "fetch"
            /\ \E outcome \in Outcomes(job.body[1]) : Grove_fetchSettled(job, outcome)
    \/ \E job \in BagToSet(jobs) : Grove_jsonSettled(job)

UnattendedInit == Init

UnattendedNext ==
    \/ \E file \in Files \cup SideFiles, ctx \in BOOLEAN : Unattended_offerAnalyzer(file, ctx)
    \/ \E file \in Files \cup SideFiles : Unattended_offerGrove(file)
    \/ Unattended_settle

Unattended == UnattendedInit /\ [][UnattendedNext]_vars /\ WF_vars(Unattended_settle)

(***************************************************************************)
(* Properties                                                              *)
(***************************************************************************)
Applied(kind) == probe.kind = kind /\ probe.phase = "output"

Contains(s, part) ==
    \E i \in 1 .. (Len(s) - Len(part) + 1) : SubSeq(s, i, i + Len(part) - 1) = part

\* q is the integer part of n / d
IsFloorOf(q, n, d) == q * d <= n /\ n < (q + 1) * d

Abs(n) == IF n < 0 THEN -n ELSE n

\* C1: in both components a file is accepted exactly when its type is one of
\* image/jpeg, image/jpg, image/png, image/webp and its size is at most
\* 10*1024*1024 bytes; a file of the wrong type leaves the type message as the
\* error, and the size message is the error exactly when the type is valid
\* and the size is over the limit.
C1_ValidationAcceptsExactly ==
    Applied("validate") =>
        LET file == probe.file
            typeOk == file.type \in {"image/jpeg", "image/jpg", "image/png", "image/webp"}
            sizeOk == file.size <= 10485760
            typeMessage == Some("Please upload a valid image file (JPEG, PNG, or WebP)")
            sizeMessage ==
                Some("Image file is too large. Please upload an image smaller than 10MB")
        IN  /\ probe.validA.ok = (typeOk /\ sizeOk)
            /\ probe.validG.ok = (typeOk /\ sizeOk)
            /\ ~typeOk => probe.uiA.error = typeMessage /\ probe.uiG.error = typeMessage
            /\ (probe.uiA.error = sizeMessage) = (typeOk /\ ~sizeOk)
            /\ (probe.uiG.error = sizeMessage) = (typeOk /\ ~sizeOk)
            /\ (typeOk /\ sizeOk) => probe.uiA.error = Null /\ probe.uiG.error = Null

\* a file of exactly 10 MB and of type image/jpg has been accepted by both
C1_Witness ==
    /\ Applied("validate")
    /\ probe.file.size = 10485760
    /\ probe.file.type = "image/jpg"
    /\ probe.validA.ok /\ probe.validG.ok
    /\ probe.uiA.selectedFile = Some(probe.file)

\* C2: for every source image with positive width and height, the canvas of
\* ImageUploadAnalyzer's resizeImage(file, 512) is at most 512 wide and at
\* most 512 high.
C2_AnalyzerCanvasFits ==
    Applied("resize") => probe.canvasA.width <= 512 /\ probe.canvasA.height <= 512

\* a portrait image, higher than 512 and no wider than 512, has been resized
C2_Witness ==
    /\ Applied("resize")
    /\ probe.file.width <= 512 /\ probe.file.height > 512
    /\ probe.canvasA.height = 512
    /\ probe.canvasA.width >= 1

\* C3 as stated: for every source image with positive width and height, the
\* canvas of Grove's resizeAndCompressImage is at most 512 wide and at most
\* 512 high.
C3_GroveCanvasFits ==
    Applied("resize") => probe.canvasG.width <= 512 /\ probe.canvasG.height <= 512

\* C3 as amended: the canvas of Grove's resizeAndCompressImage is at most 512
\* wide; it is at most 512 high exactly when the source is at most 512 high,
\* or is wider than 512 with height * 512 < 513 * width.
C3_GroveCanvasWidthFits ==
    Applied("resize") =>
        LET width == probe.file.width
            height == probe.file.height
        IN  /\ probe.canvasG.width <= 512
            /\ (probe.canvasG.height <= 512)
                    = (height <= 512 \/ (width > 512 /\ height * 512 < 513 * width))

\* a source wider than 512 has been scaled to a canvas higher than 512
C3_Witness ==
    /\ Applied("resize")
    /\ probe.file.width > 512
    /\ probe.canvasG.width = 512
    /\ probe.canvasG.height > 512

\* C4: whenever a component scales an image down, the side it limits becomes
\* exactly 512 and the other side the integer part of other * 512 / limited,
\* so |w' * h - h' * w| is smaller than the limited side of the source.
\* ImageUploadAnalyzer limits the longer side (the height of a square),
\* Grove the width.
C4_AspectRatioKept ==
    Applied("resize") =>
        LET w == probe.file.width
            h == probe.file.height
            a == probe.canvasA
            g == probe.canvasG
        IN  /\ (w > h /\ w > 512) =>
                    /\ a.width = 512
                    /\ IsFloorOf(a.height, h * 512, w)
                    /\ Abs(a.width * h - a.height * w) < w
            /\ (w <= h /\ h > 512) =>
                    /\ a.height = 512
                    /\ IsFloorOf(a.width, w * 512, h)
                    /\ Abs(a.width * h - a.height * w) < h
            /\ w > 512 =>
                    /\ g.width = 512
                    /\ IsFloorOf(g.height, h * 512, w)
                    /\ Abs(g.width * h - g.height * w) < w

\* both components have scaled down a landscape image whose scaled height is
\* no integer
C4_Witness ==
    /\ Applied("resize")
    /\ probe.file.width > 512
    /\ probe.file.height < probe.file.width
    /\ (probe.file.height * 512) % probe.file.width # 0
    /\ probe.canvasA = probe.canvasG
    /\ probe.canvasA.height >= 1

\* C5: when the source is at most 512 wide and at most 512 high, the canvas
\* of either component has the source's width and height.
C5_NeverEnlarged ==
    (Applied("resize") /\ probe.file.width <= 512 /\ probe.file.height <= 512) =>
        /\ probe.canvasA = [width |-> probe.file.width, height |-> probe.file.height]
        /\ probe.canvasG = [width |-> probe.file.width, height |-> probe.file.height]

\* a source smaller than 512 on both sides has gone through both resizes
C5_Witness ==
    /\ Applied("resize")
    /\ probe.file.width < 512 /\ probe.file.height < 512
    /\ probe.file.width # probe.file.height
    /\ probe.canvasA.width = probe.file.width
    /\ probe.canvasG.height = probe.file.height

\* The four messages of a non-OK status, by the words that tell them apart
StatusMessageKinds(message) ==
    {kind \in {"temporarily unavailable", "Server error occurred", "Invalid request",
               "failed with status "} : Contains(message, kind)}

\* C6: in both components a non-OK status of the /predict response leaves
\* exactly one of the four messages as the error: the 'temporarily
\* unavailable' one for 404, the 'Server error occurred' one for 500, the
\* 'Invalid request' one for any other status in 400..499, and the 'failed
\* with status <code>' one for every other status; 404 never gives the
\* 'Invalid request' one.
C6_StatusMessages ==
    (Applied("response") /\ ~probe.outcome.rejected /\ ~Ok(probe.outcome.status)) =>
        LET status == probe.outcome.status
            expected ==
                IF status = 404 THEN "temporarily unavailable"
                ELSE IF status = 500 THEN "Server error occurred"
                ELSE IF status \in 400 .. 499 THEN "Invalid request"
                ELSE "failed with status "
            Shown(ui) ==
                /\ ui.error # Null
                /\ StatusMessageKinds(ui.error[1]) = {expected}
                /\ expected = "failed with status " =>
                        \E prefix \in {"Request ", "API request "} :
                            ui.error[1] = prefix \o "failed with status " \o ToString(status)
        IN  Shown(probe.uiA) /\ Shown(probe.uiG)

\* a 404 answer has left each component's 'temporarily unavailable' message
C6_Witness ==
    /\ Applied("response")
    /\ ~probe.outcome.rejected
    /\ probe.outcome.status = 404
    /\ probe.uiA.error = Some("The analysis service is temporarily unavailable.")
    /\ probe.uiG.error = Some("The service may be temporarily unavailable.")

\* What the claim C7 reads of an OK response's parsed body
HasDiseaseAndConfidence(data) ==
    /\ data.json = "object"
    /\ data.disease.t = "string" /\ data.disease.s # ""
    /\ data.confidence.t = "number"

OkResponseParsed ==
    /\ Applied("response")
    /\ ~probe.outcome.rejected
    /\ Ok(probe.outcome.status)
    /\ probe.outcome.data.json # "invalid"

SetsResult(ui) == ui.result # Null /\ ui.error = Null

SetsInvalidFormat(ui) == ui.result = Null /\ ui.error = Some("Invalid response format from API")

\* C7 as stated: in both components an OK response whose JSON body has a
\* non-empty disease string and a numeric confidence sets a result and no
\* error; one lacking either sets the error 'Invalid response format from
\* API' and no result.
C7_ResultOrInvalidFormat ==
    OkResponseParsed =>
        IF HasDiseaseAndConfidence(probe.outcome.data)
        THEN SetsResult(probe.uiA) /\ SetsResult(probe.uiG)
        ELSE SetsInvalidFormat(probe.uiA) /\ SetsInvalidFormat(probe.uiG)

\* C7 as amended: an OK response whose JSON body is an object with a
\* non-empty disease string and a numeric confidence sets a result and no
\* error in ImageUploadAnalyzer, and in Grove when the object also has a
\* truthy description; a body other than null in which disease is falsy or
\* confidence is no number (in Grove: or description is falsy) sets the error
\* 'Invalid response format from API' and no result; every other body (null,
\* or a truthy disease that is no string) sets no result and the message of
\* the TypeError thrown as the error.
C7_ResultNeedsDescriptionInGrove ==
    OkResponseParsed =>
        LET data == probe.outcome.data
            disease == Property(data, "disease")
            confidence == Property(data, "confidence")
            description == Property(data, "description")
            lacksA == data.json # "null" /\ (~Truthy(disease) \/ confidence.t # "number")
            lacksG == data.json # "null" /\ (lacksA \/ ~Truthy(description))
            TypeErrorShown(ui) ==
                /\ ui.result = Null
                /\ ui.error \in {Some(NullPropertyError.message), Some(NotAFunctionError.message)}
        IN  /\ IF HasDiseaseAndConfidence(data) THEN SetsResult(probe.uiA)
               ELSE IF lacksA THEN SetsInvalidFormat(probe.uiA)
               ELSE TypeErrorShown(probe.uiA)
            /\ IF HasDiseaseAndConfidence(data) /\ Truthy(description) THEN SetsResult(probe.uiG)
               ELSE IF lacksG THEN SetsInvalidFormat(probe.uiG)
               ELSE TypeErrorShown(probe.uiG)

\* an OK body with disease and confidence and no description has given
\* ImageUploadAnalyzer a result and Grove the format error
C7_Witness ==
    /\ OkResponseParsed
    /\ HasDiseaseAndConfidence(probe.outcome.data)
    /\ probe.outcome.data.description = Undefined
    /\ SetsResult(probe.uiA)
    /\ SetsInvalidFormat(probe.uiG)

\* The analysis requests of a component that are waiting for the server
InFlight(component) ==
    LET waiting == {job \in BagToSet(jobs) : job.component = component /\ job.pc = "fetch"}
        Sum[pending \in SUBSET waiting] ==
            IF pending = {} THEN 0
            ELSE LET job == CHOOSE j \in pending : TRUE
                 IN  CopiesIn(job, jobs) + Sum[pending \ {job}]
    IN  Sum[waiting]

\* C8 as stated: whatever the user does (file pick, drop, sample click, reset
\* or Back to Home, error dismiss) and however the pending reads, decodes and
\* fetches complete, each component has at most one analysis request in
\* flight.
C8_AtMostOneRequestInFlight ==
    /\ InFlight("ImageUploadAnalyzer") <= 1
    /\ InFlight("Grove") <= 1

\* C9: an image accepted for analysis is posted to /predict at most once: its
\* request has been made exactly once while the answer or its body is awaited,
\* not at all before, and an answer that fails ends the analysis with that one
\* request.
C9_AtMostOnePostPerImage ==
    \A job \in BagToSet(jobs) :
        /\ job.posts <= 1
        /\ job.posts = (IF job.pc \in {"fetch", "json"} THEN 1 ELSE 0)
        /\ job.pc # "done"

\* the one request of an image was answered with status 500, and nothing is
\* pending after it
C9_Witness ==
    /\ mounted = {"ImageUploadAnalyzer"}
    /\ analyzer.selectedFile # Null
    /\ analyzer.error = Some(ServerErrorMessage)
    /\ ~analyzer.isAnalyzing
    /\ jobs = EmptyBag

\* Both components were offered env.file and every completion has run
Finished == env.offered = {"ImageUploadAnalyzer", "Grove"} /\ jobs = EmptyBag

\* What a component shows in the end: the result's disease and confidence, or
\* an error
OutcomeClass(ui) ==
    IF ui.result # Null
    THEN <<"result", ui.result[1].disease, ToString(ui.result[1].confidence)>>
    ELSE IF ui.error # Null THEN <<"error", "", "">>
    ELSE <<"none", "", "">>

FileAccepted ==
    /\ env.file.type \in {"image/jpeg", "image/jpg", "image/png", "image/webp"}
    /\ env.file.size <= 10485760
    /\ env.file.decodes

AnswerHasDiseaseAndConfidence ==
    /\ ~env.outcome.rejected
    /\ Ok(env.outcome.status)
    /\ HasDiseaseAndConfidence(env.outcome.data)

TallSliver == env.file.height > 512 * env.file.width

WideSliver == env.file.width > 512 * env.file.height

Posted(job) == job.pc \in {"fetch", "json"}

\* The size and type test of the claim C1, on the file of a job
PassesValidation(file) ==
    /\ file.type \in {"image/jpeg", "image/jpg", "image/png", "image/webp"}
    /\ file.size <= 10485760

\* The body of a job's POST is the JPEG encoding of its canvas, which has
\* pixels and was made of the decoded file
PostsResizedJpeg(job) ==
    /\ job.file # Null /\ job.file[1].decodes
    /\ job.canvas # Null
    /\ job.canvas[1].width > 0 /\ job.canvas[1].height > 0
    /\ job.canvas[1].width <= job.file[1].width
    /\ job.canvas[1].height <= job.file[1].height
    /\ job.body = Some([type |-> "image/jpeg", image |-> job.file[1],
                        width |-> job.canvas[1].width, height |-> job.canvas[1].height])

\* C11 as stated: in both components a POST to /predict is made only for an
\* image that passed validation and whose resize succeeded, its body is the
\* resized JPEG blob, and a file that fails validation or whose decode or
\* resize fails causes no request.
C11_ValidateResizePost ==
    \A job \in BagToSet(jobs) :
        /\ Posted(job) =>
                /\ job.via = "upload"
                /\ PassesValidation(job.file[1])
                /\ PostsResizedJpeg(job)
        /\ ~Posted(job) => job.body = Null /\ job.posts = 0

\* C11 as amended: a file offered through the file input or by a drop is
\* posted only after it passed validation and its resize succeeded; a sample
\* image of Grove is posted after its resize succeeded without ever being
\* validated; in every case the body is the JPEG blob of the canvas, and a
\* file that fails validation, or any image whose decode or resize fails,
\* causes no request.
C11_ValidateResizePostButSamples ==
    \A job \in BagToSet(jobs) :
        /\ job.via = "upload" => job.file # Null /\ PassesValidation(job.file[1])
        /\ job.via # "upload" =>
                /\ job.component = "Grove"
                /\ job.via \in {demo.name : demo \in demoImages}
        /\ Posted(job) => PostsResizedJpeg(job)
        /\ ~Posted(job) => job.body = Null /\ job.posts = 0

\* an uploaded 1024x768 image is being posted as a 512x384 JPEG
C11_Witness ==
    \E job \in BagToSet(jobs) :
        /\ job.via = "upload"
        /\ job.pc = "fetch"
        /\ job.file = Some(Landscape)
        /\ job.body # Null
        /\ job.body[1].type = "image/jpeg"
        /\ job.body[1].width = 512 /\ job.body[1].height = 384

\* The call of a handler on the probe's states is about to be applied
Calling(kind) == probe.kind = kind /\ probe.phase = "input"

\* C12: reset leaves selectedFile, previewUrl, resizedImageUrl, result and
\* error of ImageUploadAnalyzer null and isAnalyzing false, and keeps
\* isDragActive; resetAnalysis leaves uploadedImage, result and error of Grove
\* null, isDemoMode false and currentView 'home', and keeps expandedFaq and
\* mobileMenuOpen.
C12_ResetClearsAndKeeps ==
    [][Calling("reset") =>
        /\ probe'.uiA.selectedFile = Null
        /\ probe'.uiA.previewUrl = Null
        /\ probe'.uiA.resizedImageUrl = Null
        /\ probe'.uiA.result = Null
        /\ probe'.uiA.error = Null
        /\ probe'.uiA.isAnalyzing = FALSE
        /\ probe'.uiA.isDragActive = probe.uiA.isDragActive
        /\ probe'.uiG.uploadedImage = Null
        /\ probe'.uiG.result = Null
        /\ probe'.uiG.error = Null
        /\ probe'.uiG.isDemoMode = FALSE
        /\ probe'.uiG.currentView = "home"
        /\ probe'.uiG.expandedFaq = probe.uiG.expandedFaq
        /\ probe'.uiG.mobileMenuOpen = probe.uiG.mobileMenuOpen]_vars

\* resetAnalysis has been applied to a Grove with a question expanded and the
\* mobile menu open, and left both so on the home view
C12_Witness ==
    /\ Applied("reset")
    /\ probe.uiG.expandedFaq = Some(3)
    /\ probe.uiG.mobileMenuOpen
    /\ probe.uiG.currentView = "home"
    /\ probe.uiG.uploadedImage = Null
    /\ probe.uiA = analyzerInit

\* A job that is inside its analysis call: analyzeImage runs from the POST
\* on, analyzeImageWithAPI from the decode of the image on
InAnalysis(job) ==
    IF job.component = "Grove"
    THEN job.pc \in {"decode", "toBlob", "fetch", "json"}
    ELSE job.pc \in {"fetch", "json"}

\* The step ends the analysis call of a job of the component
AnalysisCompletes(component) ==
    /\ BagCardinality(jobs') < BagCardinality(jobs)
    /\ \E job \in BagToSet(jobs) :
            /\ job.component = component
            /\ InAnalysis(job)
            /\ CopiesIn(job, jobs') < CopiesIn(job, jobs)

\* C13: in both components, when an analysis call completes, in every outcome
\* (a result, a non-OK status, a network failure, a malformed body, a resize
\* failure within Grove's try block), isAnalyzing is false after the step.
C13_CompletionClearsIsAnalyzing ==
    [][/\ AnalysisCompletes("ImageUploadAnalyzer") => ~analyzer'.isAnalyzing
       /\ AnalysisCompletes("Grove") => ~grove'.isAnalyzing]_vars

\* Grove's analysis has ended on an image that does not decode, with nothing
\* pending and isAnalyzing false
C13_Witness ==
    /\ mounted = {"Grove"}
    /\ grove.error = Some(LoadFailedMessage)
    /\ grove.uploadedImage # Null
    /\ ~grove.isAnalyzing
    /\ jobs = EmptyBag

\* The message the claim C14 gives for a thrown value
MessageFor(err) ==
    IF err.class = "TypeError" /\ err.message = "Failed to fetch"
    THEN "Unable to connect to the analysis service. Please check your internet connection and try again."
    ELSE IF err.class # "NonError" THEN err.message
    ELSE "Analysis failed. Please try again with a different image."

GroveAnalysisStarts ==
    /\ \E job \in BagToSet(jobs) :
            /\ job.component = "Grove"
            /\ job.pc \in {"read", "demoBlob"}
            /\ CopiesIn(job, jobs') < CopiesIn(job, jobs)
    /\ \E next \in BagToSet(jobs') :
            /\ next.pc = "decode"
            /\ CopiesIn(next, jobs') > CopiesIn(next, jobs)

\* The step ends analyzeImageWithAPI with the result of a readable body
GroveAnalysisSucceeds ==
    /\ BagCardinality(jobs') < BagCardinality(jobs)
    /\ \E job \in BagToSet(jobs) :
            /\ job.component = "Grove"
            /\ job.pc = "json"
            /\ CopiesIn(job, jobs') < CopiesIn(job, jobs)
            /\ HasDiseaseAndConfidence(job.data[1])
            /\ Truthy(job.data[1].description)

GroveAnalysisFails == AnalysisCompletes("Grove") /\ ~GroveAnalysisSucceeds

\* C16 as stated: in Grove the start of an analysis leaves currentView
\* 'analysis', isAnalyzing true and result and error null; the failure of an
\* analysis leaves currentView 'home' and a non-null error; the success of an
\* analysis leaves currentView 'analysis', a non-null result and a null error.
C16_GroveViewFollowsAnalysis ==
    [][/\ GroveAnalysisStarts =>
            /\ grove'.currentView = "analysis"
            /\ grove'.isAnalyzing
            /\ grove'.result = Null /\ grove'.error = Null
       /\ GroveAnalysisFails =>
            /\ grove'.currentView = "home"
            /\ grove'.error # Null
       /\ GroveAnalysisSucceeds =>
            /\ grove'.currentView = "analysis"
            /\ grove'.result # Null
            /\ grove'.error = Null]_vars

\* The names the claim C17 gives the labels probed: every run of underscores
\* is one space, and the whitespace at both ends is gone
NameOf(label) ==
    CASE label = "Tomato___Early_blight" -> "Tomato Early blight"
      [] label = "__healthy_" -> "healthy"
      [] label = "Potato___healthy" -> "Potato healthy"
      [] label = "___" -> ""
      [] label = " Corn_(maize)___Common_rust_ " -> "Corn (maize) Common rust"
      [] label = "Apple scab" -> "Apple scab"

\* C17: in both components a stored result has the server's disease label
\* with every run of underscores replaced by one space and the whitespace at
\* both ends removed, and the server's confidence multiplied by 100; in
\* ImageUploadAnalyzer a missing description is stored as the empty string.
C17_ResultDerivation ==
    Applied("response") =>
        LET data == probe.outcome.data
            Derived(ui) ==
                ui.result # Null =>
                    /\ ui.result[1].disease = NameOf(data.disease.s)
                    /\ ~Contains(ui.result[1].disease, "_")
                    /\ ui.result[1].confidence = data.confidence.n * 100
        IN  /\ Derived(probe.uiA)
            /\ Derived(probe.uiG)
            /\ (probe.uiA.result # Null /\ data.description = Undefined) =>
                    probe.uiA.result[1].description = Str("")
            /\ (probe.uiG.result # Null) => probe.uiG.result[1].description = data.description

\* both components hold 'Corn (maize) Common rust' at 87.3 for the label
\* ' Corn_(maize)___Common_rust_ ' at 0.873
C17_Witness ==
    /\ Applied("response")
    /\ probe.outcome.data.disease = Str(" Corn_(maize)___Common_rust_ ")
    /\ probe.outcome.data.confidence = Num(873)
    /\ probe.uiA.result # Null /\ probe.uiG.result # Null
    /\ probe.uiA.result[1].disease = "Corn (maize) Common rust"
    /\ probe.uiG.result[1].confidence = 87300

\* The pointer is outside the drop area: left of it or above it, or at or
\* beyond its right or bottom edge
OutsideDropArea(pointer) ==
    \/ pointer.x < 100 \/ pointer.x >= 300
    \/ pointer.y < 50 \/ pointer.y >= 150

\* C18: in ImageUploadAnalyzer isDragActive becomes true only by a drag-enter
\* whose data transfer carries files; no drag-enter without files and no
\* drag-leave with the pointer inside the drop area's rectangle changes it; no
\* drop, whatever was dropped, and no drag-leave with the pointer outside the
\* rectangle leaves it true; and it becomes false by nothing but a drop or
\* such a drag-leave.
C18_DragState ==
    [][/\ (~analyzer.isDragActive /\ analyzer'.isDragActive) =>
            \E types \in DragTypes :
                /\ types # Null /\ "Files" \in types[1]
                /\ Analyzer_handleDragEnter(types)
       /\ (analyzer'.isDragActive # analyzer.isDragActive) =>
            /\ ~\E types \in DragTypes :
                    /\ types = Null \/ "Files" \notin types[1]
                    /\ Analyzer_handleDragEnter(types)
            /\ ~\E pointer \in Pointers :
                    ~OutsideDropArea(pointer) /\ Analyzer_handleDragLeave(pointer)
       /\ analyzer'.isDragActive =>
            /\ ~\E dropped \in Drops, ctx \in BOOLEAN : Analyzer_handleDrop(dropped, ctx)
            /\ ~\E pointer \in Pointers :
                    OutsideDropArea(pointer) /\ Analyzer_handleDragLeave(pointer)
       /\ (analyzer.isDragActive /\ ~analyzer'.isDragActive) =>
            \/ \E dropped \in Drops, ctx \in BOOLEAN : Analyzer_handleDrop(dropped, ctx)
            \/ \E pointer \in Pointers :
                    OutsideDropArea(pointer) /\ Analyzer_handleDragLeave(pointer)]_vars

\* a file was dragged over the drop area and then selected through the file
\* input: the drag highlight is still on while the image is analysed
C18_Witness ==
    /\ analyzer.isDragActive
    /\ analyzer.selectedFile # Null
    /\ analyzer.isAnalyzing

\* C19 as stated: in both components, in every reachable state, result and
\* error are never both non-null.
C19_ResultAndErrorExclusive ==
    /\ ~(analyzer.result # Null /\ analyzer.error # Null)
    /\ ~(grove.result # Null /\ grove.error # Null)

\* The name under which the server's answer for an image is shown, by the
\* file name the image has (in a data: URL for Grove's uploads)
ShownNameOf(image) ==
    IF Contains(image, "stem.png") THEN "Potato healthy" ELSE "Tomato Early blight"

\* C20 as stated: in both components a displayed result is the server's
\* answer for the image currently shown (selectedFile, uploadedImage), never
\* the answer to a request started for an earlier image.
C20_ResultIsForShownImage ==
    /\ (analyzer.result # Null /\ analyzer.selectedFile # Null) =>
            analyzer.result[1].disease = ShownNameOf(analyzer.selectedFile[1].name)
    /\ (/\ grove.currentView = "analysis"
        /\ ~grove.isAnalyzing
        /\ grove.result # Null
        /\ grove.uploadedImage # Null) =>
            grove.result[1].disease = ShownNameOf(grove.uploadedImage[1])

\* An analysis call of the component has started and not yet finished
AnalysisPending(component) ==
    \E job \in BagToSet(jobs) : job.component = component /\ InAnalysis(job)

\* C21 as stated: in both components, in every reachable state, isAnalyzing
\* is true if and only if some analyzeImage / analyzeImageWithAPI call has
\* started and not yet finished.
C21_IsAnalyzingIffPending ==
    /\ analyzer.isAnalyzing <=> AnalysisPending("ImageUploadAnalyzer")
    /\ grove.isAnalyzing <=> AnalysisPending("Grove")

\* One direction of it does hold: isAnalyzing is true only while a call of the
\* component is pending
IsAnalyzingOnlyWhilePending ==
    /\ analyzer.isAnalyzing => AnalysisPending("ImageUploadAnalyzer")
    /\ grove.isAnalyzing => AnalysisPending("Grove")

\* C22 as stated: in ImageUploadAnalyzer, in every reachable state, a non-null
\* result or a non-null resizedImageUrl implies a non-null selectedFile: what
\* reset cleared stays cleared until the user offers a new file.
C22_ResetStaysReset ==
    (analyzer.result # Null \/ analyzer.resizedImageUrl # Null) =>
        analyzer.selectedFile # Null

\* C23: in Grove the analysis screen is never blank: in every reachable state
\* with currentView 'analysis' and isAnalyzing false, result is non-null.
C23_AnalysisScreenNeverBlank ==
    (grove.currentView = "analysis" /\ ~grove.isAnalyzing) => grove.result # Null

\* an analysis of Grove has ended with a result: the analysis screen shows
\* the result card, and nothing is pending
C23_Witness ==
    /\ mounted = {"Grove"}
    /\ grove.currentView = "analysis"
    /\ ~grove.isAnalyzing
    /\ grove.result # Null
    /\ jobs = EmptyBag

\* The one file was offered and passed the validation of the component
OfferedValidFile ==
    \/ env.offered = {"ImageUploadAnalyzer"} /\ validateFile(env.file).ok
    \/ env.offered = {"Grove"} /\ validateImage(env.file).ok

\* The component shows a result or an error, and is not analysing
Concluded(ui) == (ui.result # Null \/ ui.error # Null) /\ ~ui.isAnalyzing

\* C24 as stated: in both components, every file that passes validation
\* eventually leads to a non-null result or a non-null error with isAnalyzing
\* false, when every started file read, image decode and fetch eventually
\* completes (successfully or with a failure) and the user does nothing more.
C24_ValidFileConcludes ==
    OfferedValidFile ~>
        IF "Grove" \in mounted THEN Concluded(grove) ELSE Concluded(analyzer)

\* The part of it that holds: ImageUploadAnalyzer concludes on every valid
\* file, and Grove on every valid file whose read has succeeded
ValidFileConcludesOnceRead ==
    /\ (env.offered = {"ImageUploadAnalyzer"} /\ validateFile(env.file).ok)
            ~> Concluded(analyzer)
    /\ (env.offered = {"Grove"} /\ validateImage(env.file).ok /\ grove.uploadedImage # Null)
            ~> Concluded(grove)

\* C25 as stated: in both components, for every source image with positive
\* integer width and height, the canvas width and height computed by the
\* resize step are both at least 1, so the canvas is never empty.
C25_CanvasNeverEmpty ==
    Applied("resize") =>
        /\ probe.canvasA.width >= 1 /\ probe.canvasA.height >= 1
        /\ probe.canvasG.width >= 1 /\ probe.canvasG.height >= 1

\* What does hold: a side of the canvas is 0 exactly when the side the
\* component limits is more than 512 times the other side
CanvasEmptyExactlyWhenTooOblong ==
    Applied("resize") =>
        LET w == probe.file.width
            h == probe.file.height
        IN  /\ probe.canvasA.width >= 1 <=> ~(h > 512 * w)
            /\ probe.canvasA.height >= 1 <=> ~(w > 512 * h)
            /\ probe.canvasG.width >= 1
            /\ probe.canvasG.height >= 1 <=> ~(w > 512 * h)

\* The step sets the message for a file of a type that is not accepted
SetsTypeError(ui) == ui.error = Some(InvalidTypeMessage)

\* C26 as stated: in both components, every file the user offers, through the
\* file picker or by drag-and-drop, whose type is not one of the accepted
\* types results in the 'Please upload a valid image file (JPEG, PNG, or
\* WebP)' error being set; no offered file is silently ignored.
C26_UnacceptedTypeSetsError ==
    [][\A file \in Files :
        file.type \notin validTypes =>
            /\ (\E ctx \in BOOLEAN : Analyzer_handleFileChange(file, ctx)) =>
                    SetsTypeError(analyzer')
            /\ (\E ctx \in BOOLEAN : Analyzer_handleDrop(Some(file), ctx)) =>
                    SetsTypeError(analyzer')
            /\ Grove_handleImageUpload(file) => SetsTypeError(grove')
            /\ Grove_onDrop(Some(file)) => SetsTypeError(grove')]_vars

\* C26 as amended: a file of a type that is not accepted sets the type error
\* when it comes through the file picker, and when it is dropped and its type
\* starts with 'image/'; a dropped file of any other type is ignored without
\* a message: ImageUploadAnalyzer only clears the drag highlight, Grove
\* changes nothing, and no flow is started.
C26_UnacceptedTypeSetsErrorUnlessDroppedNonImage ==
    [][\A file \in Files :
        file.type \notin validTypes =>
            /\ (\E ctx \in BOOLEAN : Analyzer_handleFileChange(file, ctx)) =>
                    SetsTypeError(analyzer') /\ jobs' = jobs
            /\ (\E ctx \in BOOLEAN : Analyzer_handleDrop(Some(file), ctx)) =>
                    IF StartsWith(file.type, "image/")
                    THEN SetsTypeError(analyzer') /\ jobs' = jobs
                    ELSE /\ analyzer' = [analyzer EXCEPT !.isDragActive = FALSE]
                         /\ jobs' = jobs
            /\ Grove_handleImageUpload(file) => SetsTypeError(grove') /\ jobs' = jobs
            /\ Grove_onDrop(Some(file)) =>
                    IF StartsWith(file.type, "image/")
                    THEN SetsTypeError(grove') /\ jobs' = jobs
                    ELSE grove' = grove /\ jobs' = jobs]_vars

\* ImageUploadAnalyzer holds the type error for a file of a type that is not
\* accepted, picked or dropped as an image: no file is selected, the drag
\* highlight is off and nothing is pending
C26_Witness ==
    /\ mounted = {"ImageUploadAnalyzer"}
    /\ SetsTypeError(analyzer)
    /\ analyzer.selectedFile = Null
    /\ ~analyzer.isDragActive
    /\ jobs = EmptyBag

====
